---------------------------- MODULE Spec2Model ----------------------------
(***************************************************************************)
(* Crawl frontier and crawl loop of the NGO web scraper:                   *)
(*   src/src/url_manager.py  URLManager (normalisation, dedup, queue,      *)
(*                           visited/failed bookkeeping, save/load state)  *)
(*   src/src/scraper.py      NGOScraper (scrape_ngo loop, checkpoints)     *)
(*                                                                         *)
(* A URL string is modelled by its text split at the delimiters urlparse   *)
(* splits it at:                                                           *)
(*   scheme "://" host (":" port)* ("/" segment)* ["?" k=v&...] ["#" frag] *)
(* a path segment is the sequence of its pieces between ";" characters:    *)
(*   "a" = <<"a">>,  ";p" = <<"", "p">>,  "" = <<"">>,  "a;p;q" = <<a,p,q>>*)
(* so path "" is <<>>, "/" is << <<"">> >> and "/a/" is << <<"a">>,<<"">> >>*)
(***************************************************************************)
EXTENDS Integers, Sequences, FiniteSets, TLC

\* Python's None where a URL text is expected
None == [none |-> TRUE]

\* Python's None where a queue entry is expected
NoEntry == <<>>

\* Python's None as add_url's priority argument
NoPriority == -1

Range(s) == {s[i] : i \in DOMAIN s}

Front(s) == SubSeq(s, 1, Len(s) - 1)

Last(s) == s[Len(s)]

Max(a, b) == IF a >= b THEN a ELSE b

---------------------------------------------------------------------------
(* URL text                                                                *)

Url(scheme, host, ports, segs, query, frag) ==
    [scheme |-> scheme, host |-> host, ports |-> ports,
     segs |-> segs, query |-> query, frag |-> frag]

\* str.lower() on the scheme and host texts that occur
Lower(s) ==
    CASE s = "HTTP" -> "http"
      [] s = "HTTPS" -> "https"
      [] s = "Example.org" -> "example.org"
      [] OTHER -> s

\* the order of str comparison on the query keys that occur
KeyRank(k) ==
    CASE k = "a" -> 1
      [] k = "b" -> 2
      [] OTHER -> 3

\* urllib.parse._splitparams as urlparse applies it to an http(s) path:
\* the text after the first ";" of the LAST segment becomes params
SplitParams(segs) ==
    IF segs = <<>>
    THEN [path |-> <<>>, params |-> <<>>]
    ELSE IF Len(Last(segs)) > 1
         THEN [path |-> Front(segs) \o << <<Last(segs)[1]>> >>,
               params |-> Tail(Last(segs))]
         ELSE [path |-> segs, params |-> <<>>]

\* path.rstrip('/'): every trailing "/" goes, i.e. every trailing empty segment
RECURSIVE RStripSlash(_)
RStripSlash(path) ==
    IF path # <<>> /\ Last(path) = <<"">>
    THEN RStripSlash(Front(path))
    ELSE path

\* the params text is the empty string
ParamsEmpty(params) == params = <<>> \/ params = <<"">>

\* urlunparse: "if params: url = url;params", and urlunsplit puts "/" before
\* a path that does not start with one
JoinParams(path, params) ==
    IF ParamsEmpty(params) THEN path
    ELSE IF path = <<>> THEN << <<"">> \o params >>
    ELSE Front(path) \o << Last(path) \o params >>

\* parse_qs(query, keep_blank_values=True): key -> list of its values, in order
QueryKeys(query) == {query[i][1] : i \in DOMAIN query}

RECURSIVE ValuesOf(_, _)
ValuesOf(query, k) ==
    IF query = <<>> THEN <<>>
    ELSE (IF Head(query)[1] = k THEN << Head(query) >> ELSE <<>>)
         \o ValuesOf(Tail(query), k)

\* urlencode(sorted(params.items()), doseq=True)
RECURSIVE SortedQuery(_, _)
SortedQuery(query, keys) ==
    IF keys = {} THEN <<>>
    ELSE LET k == CHOOSE x \in keys : \A y \in keys : KeyRank(x) <= KeyRank(y)
         IN  ValuesOf(query, k) \o SortedQuery(query, keys \ {k})

\* netloc[:-3] / netloc[:-4] when the netloc text ends with the default port
StripDefaultPort(scheme, ports) ==
    IF ports # <<>> /\ Last(ports) = 80 /\ scheme = "http" THEN Front(ports)
    ELSE IF ports # <<>> /\ Last(ports) = 443 /\ scheme = "https" THEN Front(ports)
    ELSE ports

\* "Clean path - remove trailing slash unless it's root"
CleanPath(path) ==
    IF path # << <<"">> >> /\ path # <<>> /\ Last(path) = <<"">>
    THEN RStripSlash(path)
    ELSE path

\* URLManager.normalize_url for an absolute URL (urljoin leaves it as it is)
NormalizeUrl(u) ==
    LET scheme == Lower(u.scheme)
        parsed == SplitParams(u.segs)
    IN  IF scheme \notin {"http", "https"} THEN None
        ELSE Url(scheme,
                 Lower(u.host),
                 StripDefaultPort(scheme, u.ports),
                 JoinParams(CleanPath(parsed.path), parsed.params),
                 SortedQuery(u.query, QueryKeys(u.query)),
                 "")

\* URLManager._url_hash: the MD5 digest of the canonical text, one per text
UrlHash(u) == [md5 |-> u]

---------------------------------------------------------------------------
(* The URL texts the model draws from                                      *)

\* http://example.org/
SeedRoot == Url("http", "example.org", <<>>, << <<"">> >>, <<>>, "")

\* http://example.org/a?a=2&b=1
PageA == Url("http", "example.org", <<>>, << <<"a">> >>,
             << <<"a", "2">>, <<"b", "1">> >>, "")

\* HTTP://Example.org:80/a/?b=1&a=2#top  (the same page as PageA)
PageAVariant == Url("HTTP", "Example.org", <<80>>, << <<"a">>, <<"">> >>,
                    << <<"b", "1">>, <<"a", "2">> >>, "top")

\* http://example.org/d/;p/;q/
ParamDir == Url("http", "example.org", <<>>,
                << <<"d">>, <<"", "p">>, <<"", "q">>, <<"">> >>, <<>>, "")

\* http://example.org/d/;p/;q
ParamPage == Url("http", "example.org", <<>>,
                 << <<"d">>, <<"", "p">>, <<"", "q">> >>, <<>>, "")

\* mailto:info@example.org
MailLink == Url("mailto", "", <<>>, <<>>, <<>>, "")

\* http://example.org/d/;p;q
ParamFile == Url("http", "example.org", <<>>,
                 << <<"d">>, <<"", "p", "q">> >>, <<>>, "")

\* http://example.org/report.pdf
Report == Url("http", "example.org", <<>>, << <<"report.pdf">> >>, <<>>, "")

\* http://example.org  (the site's address without a path)
SeedBare == Url("http", "example.org", <<>>, <<>>, <<>>, "")

\* http://example.org/logout
Logout == Url("http", "example.org", <<>>, << <<"logout">> >>, <<>>, "")

\* http://example.org/logout/report.pdf
LogoutDoc == Url("http", "example.org", <<>>, << <<"logout">>, <<"report.pdf">> >>, <<>>, "")

\* http://partner.net/  (another site)
Partner == Url("http", "partner.net", <<>>, << <<"">> >>, <<>>, "")

\* http://partner.net/report.pdf
PartnerDoc == Url("http", "partner.net", <<>>, << <<"report.pdf">> >>, <<>>, "")

RawUrls == {SeedRoot, PageA, PageAVariant, ParamDir, ParamPage, ParamFile, MailLink, Report,
            Partner, PartnerDoc, SeedBare, Logout, LogoutDoc}


---------------------------------------------------------------------------
(* State                                                                   *)

VARIABLES
    pc,                         \* "idle": no scrape_ngo call is running; "running": in its loop;
                                \* "api": the URLManager is driven call by call
    um,                         \* NGOScraper.url_manager: the URLManager's fields
    run,                        \* scrape_ngo's locals max_depth, max_pages
    stats,                      \* NGOScraper.stats
    requests_since_checkpoint,  \* NGOScraper.requests_since_checkpoint
    progress_file,              \* the content of the checkpoint file on disk
    last,                       \* the last call or loop step and what it returned
    accept_no,                  \* history: per canonical URL, the number of its acceptance by add_url (0: none)
    restored_visited,           \* history: the visited set load_state restored in this run
    restored_fetched,           \* history: the URLs whose fetch the restored checkpoint records
    session,                    \* history of this URLManager: per canonical URL, the raw URLs add_url
                                \* accepted for it, and how often it was dequeued and fetched
    crashed_fetched,            \* history: the URLs the crashed run had fetched, while a resume of it runs
    runs                        \* history: number of scrape_ngo calls so far

vars == <<pc, um, run, stats, requests_since_checkpoint, progress_file, last,
          accept_no, restored_visited, restored_fetched, session,
          crashed_fetched, runs>>

crawlVars == <<run, stats, requests_since_checkpoint, progress_file,
               restored_visited, restored_fetched,
               crashed_fetched, runs>>

---------------------------------------------------------------------------
(* URLManager                                                              *)

\* add_url's "priority if priority is not None else 3"
DefaultPriority == 3

EmptyMap == [x \in {} |-> ""]

ZeroStats ==
    [total_queued |-> 0, total_visited |-> 0, total_failed |-> 0,
     total_skipped |-> 0, duplicate_count |-> 0]

\* URLManager.__init__
NewURLManager(base_domain, max_depth, max_pages) ==
    [base_domain |-> Lower(base_domain),
     max_depth |-> max_depth,
     max_pages |-> max_pages,
     visited_urls |-> {},
     url_hashes |-> {},
     failed_urls |-> EmptyMap,
     url_queue |-> <<>>,
     stats |-> ZeroStats]

\* the mutant of Bump: the counter is raised by two
BumpByTwo(m, counter) == [m EXCEPT !.stats[counter] = @ + 2]

\* self.stats[counter] += 1
Bump(m, counter) == [m EXCEPT !.stats[counter] = @ + 1]

\* the mutant of IsDuplicate: the dedup index is not consulted
IsDuplicateNever(m, n) == FALSE

\* add_url: "if url_hash in self.url_hashes"
IsDuplicate(m, n) == UrlHash(n) \in m.url_hashes

\* add_url: "if depth > self.max_depth"
DepthExceeded(m, depth) == depth > m.max_depth

\* the mutant of PageLimitReached: the comparison is off by one
PageLimitReachedOffByOne(m) == Cardinality(m.visited_urls) > m.max_pages

\* add_url: "if len(self.visited_urls) >= self.max_pages"
PageLimitReached(m) == Cardinality(m.visited_urls) >= m.max_pages

\* the mutant of AddUrl: a URL rejected for its depth or for the page limit is
\* remembered in the dedup index
AddUrlRemembering(m, url, depth, parent_url, priority) ==
    LET n == NormalizeUrl(url) IN
    IF n = None THEN [um |-> Bump(m, "total_skipped"), ret |-> FALSE]
    ELSE IF IsDuplicate(m, n) THEN [um |-> Bump(m, "duplicate_count"), ret |-> FALSE]
    ELSE IF DepthExceeded(m, depth) \/ PageLimitReached(m)
    THEN [um |-> [Bump(m, "total_skipped") EXCEPT !.url_hashes = @ \cup {UrlHash(n)}],
          ret |-> FALSE]
    ELSE [um |-> [Bump(m, "total_queued") EXCEPT
                    !.url_queue = Append(@, <<IF priority # NoPriority THEN priority
                                              ELSE DefaultPriority,
                                              depth, n, parent_url>>),
                    !.url_hashes = @ \cup {UrlHash(n)}],
          ret |-> TRUE]

\* URLManager.add_url: the manager after the call, and the value returned
AddUrl(m, url, depth, parent_url, priority) ==
    LET n == NormalizeUrl(url) IN
    IF n = None THEN [um |-> Bump(m, "total_skipped"), ret |-> FALSE]
    ELSE IF IsDuplicate(m, n) THEN [um |-> Bump(m, "duplicate_count"), ret |-> FALSE]
    ELSE IF DepthExceeded(m, depth) THEN [um |-> Bump(m, "total_skipped"), ret |-> FALSE]
    ELSE IF PageLimitReached(m) THEN [um |-> Bump(m, "total_skipped"), ret |-> FALSE]
    ELSE [um |-> [Bump(m, "total_queued") EXCEPT
                    !.url_queue = Append(@, <<IF priority # NoPriority THEN priority
                                              ELSE DefaultPriority,
                                              depth, n, parent_url>>),
                    !.url_hashes = @ \cup {UrlHash(n)}],
          ret |-> TRUE]

\* get_next_url's sort key "lambda x: (x[0], x[1])": a sorts strictly before b
KeyLess(a, b) == a[1] < b[1] \/ (a[1] = b[1] /\ a[2] < b[2])

\* the mutant of InsertSorted: an entry goes before the entries of equal key
RECURSIVE InsertSortedBeforeEqual(_, _)
InsertSortedBeforeEqual(s, e) ==
    IF s = <<>> THEN <<e>>
    ELSE IF ~KeyLess(Head(s), e) THEN <<e>> \o s
    ELSE <<Head(s)>> \o InsertSortedBeforeEqual(Tail(s), e)

\* one step of Python's stable sorted(): e goes after every entry whose key is
\* not greater than its own
RECURSIVE InsertSorted(_, _)
InsertSorted(s, e) ==
    IF s = <<>> THEN <<e>>
    ELSE IF KeyLess(e, Head(s)) THEN <<e>> \o s
    ELSE <<Head(s)>> \o InsertSorted(Tail(s), e)

\* sorted(self.url_queue, key=lambda x: (x[0], x[1]))
RECURSIVE SortQueue(_)
SortQueue(q) ==
    IF q = <<>> THEN <<>>
    ELSE InsertSorted(SortQueue(Front(q)), Last(q))

\* the mutant of GetNextUrl: the entry returned stays in the queue
GetNextUrlKeep(m) ==
    IF m.url_queue = <<>> THEN [um |-> m, entry |-> NoEntry]
    ELSE LET sorted == SortQueue(m.url_queue)
         IN  [um |-> [m EXCEPT !.url_queue = sorted],
              entry |-> Head(sorted)]

\* URLManager.get_next_url: the manager after the call and the queue entry that
\* was popped, of which (depth, url, parent_url) is returned, or None
GetNextUrl(m) ==
    IF m.url_queue = <<>> THEN [um |-> m, entry |-> NoEntry]
    ELSE LET sorted == SortQueue(m.url_queue)
         IN  [um |-> [m EXCEPT !.url_queue = Tail(sorted)],
              entry |-> Head(sorted)]

\* the mutant of MarkVisited: nothing is recorded
MarkVisitedNothing(m, url) == m

\* the mutant of MarkVisited: the URL is recorded and not counted
MarkVisitedUncounted(m, url) ==
    LET n == NormalizeUrl(url) IN
    IF n = None THEN m
    ELSE [m EXCEPT !.visited_urls = @ \cup {n}]

\* URLManager.mark_visited
MarkVisited(m, url) ==
    LET n == NormalizeUrl(url) IN
    IF n = None THEN m
    ELSE [Bump(m, "total_visited") EXCEPT !.visited_urls = @ \cup {n}]

\* the mutant of MarkFailed: the failure is counted and not recorded
MarkFailedCountOnly(m, url, error) == Bump(m, "total_failed")

\* URLManager.mark_failed
MarkFailed(m, url, error) ==
    LET n == NormalizeUrl(url) IN
    IF n = None THEN m
    ELSE [Bump(m, "total_failed") EXCEPT
            !.failed_urls = [x \in DOMAIN @ \cup {n} |-> IF x = n THEN error ELSE @[x]]]

\* URLManager.is_visited
IsVisited(m, url) ==
    LET n == NormalizeUrl(url) IN
    IF n = None THEN FALSE ELSE n \in m.visited_urls

\* the mutant of QueueSize: the queue always counts as empty
QueueSizeZero(m) == 0

\* URLManager.queue_size
QueueSize(m) == Len(m.url_queue)

\* list(a_set): the elements in the order the set iterates them
RECURSIVE SetToList(_)
SetToList(S) ==
    IF S = {} THEN <<>>
    ELSE LET x == CHOOSE y \in S : TRUE IN <<x>> \o SetToList(S \ {x})

\* URLManager.save_state
SaveState(m) ==
    [base_domain |-> m.base_domain,
     max_depth |-> m.max_depth,
     max_pages |-> m.max_pages,
     visited_urls |-> SetToList(m.visited_urls),
     url_hashes |-> SetToList(m.url_hashes),
     failed_urls |-> m.failed_urls,
     url_queue |-> m.url_queue,
     stats |-> m.stats]

\* state.get(key, default)
Get(state, key, default) == IF key \in DOMAIN state THEN state[key] ELSE default

\* the mutant of LoadState: the failed map is not restored
LoadStateWithoutFailed(m, state) ==
    [base_domain |-> Get(state, "base_domain", m.base_domain),
     max_depth |-> Get(state, "max_depth", m.max_depth),
     max_pages |-> Get(state, "max_pages", m.max_pages),
     visited_urls |-> Range(Get(state, "visited_urls", <<>>)),
     url_hashes |-> Range(Get(state, "url_hashes", <<>>)),
     failed_urls |-> m.failed_urls,
     url_queue |-> Get(state, "url_queue", <<>>),
     stats |-> Get(state, "stats", m.stats)]

\* the mutant of LoadState: the dedup index is not restored
LoadStateWithoutIndex(m, state) ==
    [base_domain |-> Get(state, "base_domain", m.base_domain),
     max_depth |-> Get(state, "max_depth", m.max_depth),
     max_pages |-> Get(state, "max_pages", m.max_pages),
     visited_urls |-> Range(Get(state, "visited_urls", <<>>)),
     url_hashes |-> m.url_hashes,
     failed_urls |-> Get(state, "failed_urls", EmptyMap),
     url_queue |-> Get(state, "url_queue", <<>>),
     stats |-> Get(state, "stats", m.stats)]

\* URLManager.load_state
LoadState(m, state) ==
    [base_domain |-> Get(state, "base_domain", m.base_domain),
     max_depth |-> Get(state, "max_depth", m.max_depth),
     max_pages |-> Get(state, "max_pages", m.max_pages),
     visited_urls |-> Range(Get(state, "visited_urls", <<>>)),
     url_hashes |-> Range(Get(state, "url_hashes", <<>>)),
     failed_urls |-> Get(state, "failed_urls", EmptyMap),
     url_queue |-> Get(state, "url_queue", <<>>),
     stats |-> Get(state, "stats", m.stats)]


---------------------------------------------------------------------------
(* History kept beside the program state                                   *)

\* the canonical URLs add_url can put into the queue
Canon == {NormalizeUrl(u) : u \in RawUrls} \ {None}

NoSession ==
    [accepted |-> [c \in Canon |-> <<>>],
     dequeued |-> [c \in Canon |-> 0],
     fetched |-> [c \in Canon |-> 0]]

NoAcceptNo == [c \in Canon |-> 0]

\* the counter of URLManager.stats that a call raised
CountedAs(m, m2) ==
    IF m2.stats.total_queued > m.stats.total_queued THEN "total_queued"
    ELSE IF m2.stats.duplicate_count > m.stats.duplicate_count THEN "duplicate_count"
    ELSE IF m2.stats.total_skipped > m.stats.total_skipped THEN "total_skipped"
    ELSE "none"

Event(op, url, ret, entry, counted) ==
    [op |-> op, url |-> url, ret |-> ret, entry |-> entry, counted |-> counted]

NoEvent == Event("none", None, FALSE, NoEntry, "none")

\* the session history after add_url(url, ...) returned ret
Accepted(s, url, ret) ==
    IF ret THEN [s EXCEPT !.accepted[NormalizeUrl(url)] = Append(@, url)] ELSE s

\* the session history after get_next_url returned entry
Dequeued(s, entry) ==
    IF entry = NoEntry THEN s ELSE [s EXCEPT !.dequeued[entry[3]] = @ + 1]

---------------------------------------------------------------------------
(* The URLManager driven call by call                                      *)

\* bound on the number of load_state calls on a URLManager driven call by call
MaxLoads == 1

\* bound on the counters duplicate_count, total_skipped, total_visited,
\* total_failed of a URLManager driven call by call
MaxCount == 1

CountersInBound(m) ==
    /\ m.stats.duplicate_count <= MaxCount
    /\ m.stats.total_skipped <= MaxCount
    /\ m.stats.total_visited <= MaxCount
    /\ m.stats.total_failed <= MaxCount

\* one add_url call; asked is what the history keeps of its arguments
ApiAddUrlAsked(url, depth, priority, asked) ==
    LET r == AddUrl(um, url, depth, None, priority) IN
    /\ pc = "api"
    /\ CountersInBound(r.um)
    /\ um' = r.um
    /\ last' = Event("add_url", url, r.ret, asked, CountedAs(um, r.um))
    /\ session' = Accepted(session, url, r.ret)
    /\ accept_no' = IF r.ret
                    THEN [accept_no EXCEPT ![NormalizeUrl(url)] = r.um.stats.total_queued]
                    ELSE accept_no
    /\ UNCHANGED <<pc, crawlVars>>

ApiAddUrl(url, depth, priority) == ApiAddUrlAsked(url, depth, priority, NoEntry)

\* one add_url call, the history keeping the priority and depth it was given
ApiAddUrlTraced(url, depth, priority) ==
    ApiAddUrlAsked(url, depth, priority, <<priority, depth, url, None>>)

ApiGetNextUrl ==
    LET r == GetNextUrl(um) IN
    /\ pc = "api"
    /\ um' = r.um
    /\ last' = Event("get_next_url", IF r.entry = NoEntry THEN None ELSE r.entry[3],
                     r.entry # NoEntry, r.entry, "none")
    /\ session' = Dequeued(session, r.entry)
    /\ UNCHANGED <<pc, accept_no, crawlVars>>

ApiMarkVisited(url) ==
    LET m == MarkVisited(um, url) IN
    /\ pc = "api"
    /\ CountersInBound(m)
    /\ um' = m
    /\ last' = Event("mark_visited", url, FALSE, NoEntry, "none")
    /\ UNCHANGED <<pc, session, accept_no, crawlVars>>

ApiMarkFailed(url, error) ==
    LET m == MarkFailed(um, url, error) IN
    /\ pc = "api"
    /\ CountersInBound(m)
    /\ um' = m
    /\ last' = Event("mark_failed", url, FALSE, NoEntry, "none")
    /\ UNCHANGED <<pc, session, accept_no, crawlVars>>


\* NGOScraper.__init__: the request counters of self.stats
InitStats ==
    [total_requests |-> 0, successful_requests |-> 0, failed_requests |-> 0]

\* no checkpoint file on disk
NoFile == [exists |-> FALSE]

NoRun == [max_depth |-> 0, max_pages |-> 0]

\* the (max_depth, max_pages) pairs scrape_ngo is called with
Scopes == {<<2, 3>>, <<1, 3>>, <<1, 2>>}

InitApi(max_depth, max_pages) ==
    /\ pc = "api"
    /\ um = NewURLManager("Example.org", max_depth, max_pages)
    /\ run = NoRun
    /\ stats = InitStats
    /\ requests_since_checkpoint = 0
    /\ progress_file = NoFile
    /\ last = NoEvent
    /\ accept_no = NoAcceptNo
    /\ restored_visited = {}
    /\ restored_fetched = {}
    /\ session = NoSession
    /\ crashed_fetched = {}
    /\ runs = 0

\* any sequence of add_url / get_next_url / mark_visited / mark_failed calls
FrontierUrls == {SeedRoot, PageA, PageAVariant, MailLink}

InitFrontier == InitApi(1, 1)

NextFrontier ==
    \/ \E u \in FrontierUrls, d \in {0, 2}, p \in {NoPriority, 0} : ApiAddUrl(u, d, p)
    \/ ApiGetNextUrl
    \/ \E u \in FrontierUrls : ApiMarkVisited(u)
    \/ \E u \in FrontierUrls : ApiMarkFailed(u, "Timeout")

SpecFrontier == InitFrontier /\ [][NextFrontier]_vars

\* add_url calls of every outcome (not a URL, duplicate, too deep, budget
\* reached, accepted) between get_next_url and mark_visited calls
EnqueueUrls == {PageA, PageAVariant, MailLink}

NextEnqueue ==
    \/ \E u \in EnqueueUrls, d \in {0, 2}, p \in {NoPriority, 0} : ApiAddUrlTraced(u, d, p)
    \/ ApiGetNextUrl
    \/ \E u \in EnqueueUrls : ApiMarkVisited(u)

SpecEnqueue == InitFrontier /\ [][NextEnqueue]_vars

\* one add_url call, the history keeping the priority and depth it was given
\* and the call that was made before it
ApiAddUrlAfter(url, depth, priority) ==
    ApiAddUrlAsked(url, depth, priority,
                   <<priority, depth, url, None,
                     [op |-> last.op, url |-> last.url, ret |-> last.ret,
                      counted |-> last.counted]>>)

\* add_url calls of every outcome between get_next_url, mark_visited and
\* mark_failed calls
RejectUrls == {PageA, Report, MailLink}

NextReject ==
    \/ \E u \in RejectUrls, d \in {0, 2} : ApiAddUrlAfter(u, d, 0)
    \/ ApiGetNextUrl
    \/ \E u \in RejectUrls : ApiMarkVisited(u)
    \/ \E u \in RejectUrls : ApiMarkFailed(u, "Timeout")

SpecReject == InitFrontier /\ [][NextReject]_vars

\* the largest number of mark_visited calls where a call can be repeated
MaxMarks == 2

\* one mark_visited call that can follow another one for the same URL
ApiMarkVisitedAgain(url) ==
    LET m == MarkVisited(um, url) IN
    /\ pc = "api"
    /\ m.stats.total_visited <= MaxMarks
    /\ um' = m
    /\ last' = Event("mark_visited", url, FALSE, NoEntry, "none")
    /\ UNCHANGED <<pc, session, accept_no, crawlVars>>

\* add_url calls with URLs written in several ways, between get_next_url and
\* mark_visited calls
CanonUrls == {SeedBare, PageA, ParamPage}

NextCanon ==
    \/ \E u \in CanonUrls, d \in {0, 1} : ApiAddUrlTraced(u, d, 0)
    \/ ApiGetNextUrl
    \/ \E u \in CanonUrls : ApiMarkVisitedAgain(u)

SpecCanon == InitFrontier /\ [][NextCanon]_vars

\* one load_state call; runs counts the load_state calls of a URLManager driven
\* call by call
ApiLoadState(state) ==
    /\ pc = "api"
    /\ runs < MaxLoads
    /\ runs' = runs + 1
    /\ um' = LoadState(um, state)
    /\ last' = Event("load_state", None, FALSE, <<state>>, "none")
    /\ session' = NoSession
    /\ accept_no' = NoAcceptNo
    /\ UNCHANGED <<pc, run, stats, requests_since_checkpoint, progress_file,
                   restored_visited, restored_fetched, crashed_fetched>>

\* URLManagers whose save_state gives the snapshots: a new one, and one that
\* accepted two URLs, handed out the first and marked it failed and visited
SnapshotManagers ==
    LET new == NewURLManager("Example.org", 2, 3)
        a == AddUrl(new, SeedRoot, 0, None, 0).um
        b == AddUrl(a, PageAVariant, 1, SeedRoot, NoPriority).um
        c == GetNextUrl(b).um
    IN  {new, MarkVisited(MarkFailed(c, SeedRoot, "Timeout"), SeedRoot)}

\* the fields of a snapshot that load_state reads with a default of its own
OptionalFields == {"visited_urls", "url_hashes", "failed_urls", "url_queue", "stats"}

\* a snapshot written without one field, and one written with a field that
\* load_state does not know
Without(state, field) == [k \in DOMAIN state \ {field} |-> state[k]]

WithUnknown(state) == state @@ [schema_version |-> "2"]

\* the snapshots given to load_state
Snapshots ==
    LET full == {SaveState(m) : m \in SnapshotManagers}
    IN  full \cup {Without(st, f) : st \in full, f \in OptionalFields}
             \cup {WithUnknown(st) : st \in full}

\* load_state calls between add_url / get_next_url / mark_visited / mark_failed calls
ImportUrls == {SeedRoot, PageA}

InitImport == InitApi(1, 2)

NextImport ==
    \/ \E u \in ImportUrls : ApiAddUrl(u, 0, NoPriority)
    \/ ApiGetNextUrl
    \/ \E u \in ImportUrls : ApiMarkVisited(u)
    \/ \E u \in ImportUrls : ApiMarkFailed(u, "Timeout")
    \/ \E st \in Snapshots : ApiLoadState(st)

SpecImport == InitImport /\ [][NextImport]_vars

\* any interleaving of add_url and get_next_url calls
OrderUrls == {SeedRoot, PageA, ParamDir, ParamPage}

OrderKeys == {<<0, 0>>, <<0, 1>>, <<1, 0>>, <<2, 0>>}

InitOrder == InitApi(1, 2)

NextOrder ==
    \/ \E u \in OrderUrls, k \in OrderKeys : ApiAddUrl(u, k[2], k[1])
    \/ ApiGetNextUrl

SpecOrder == InitOrder /\ [][NextOrder]_vars

---------------------------------------------------------------------------
(* Claims about the URLManager driven call by call                         *)

EntriesOf(m, c) == {i \in DOMAIN m.url_queue : m.url_queue[i][3] = c}

\* C1 (dedup): of the raw URLs that normalize_url maps to one canonical URL,
\* add_url accepts at most one, once; a later add_url of an equivalent raw URL
\* returns False and is counted in duplicate_count; the pending queue never
\* holds two entries for one canonical URL.
C1_Dedup ==
    /\ \A c \in Canon : Len(session.accepted[c]) <= 1
    /\ \A c \in Canon : Cardinality(EntriesOf(um, c)) <= 1
    /\ (last.op = "add_url" /\ NormalizeUrl(last.url) # None
           /\ session.accepted[NormalizeUrl(last.url)] # <<>>)
         => \/ last.ret /\ last.counted = "total_queued"
                        /\ session.accepted[NormalizeUrl(last.url)] = <<last.url>>
            \/ ~last.ret /\ last.counted = "duplicate_count"

\* C1 witness: PageA was accepted and dequeued and marked visited, and add_url of
\* its other spelling PageAVariant has just returned False
C1_Witness ==
    /\ last.op = "add_url" /\ last.url = PageAVariant /\ ~last.ret
    /\ session.accepted[PageA] = <<PageA>>
    /\ session.dequeued[PageA] = 1
    /\ PageA \in um.visited_urls
    /\ um.url_queue = <<>>

KeyOf(e) == <<e[1], e[2]>>

\* C4 (dequeue order): the entry get_next_url returns has the smallest
\* (priority, depth) of the pending entries, and of the entries with that key
\* it is the one add_url accepted first.
C4_DequeueOrder ==
    (last.op = "get_next_url" /\ last.entry # NoEntry) =>
        \A i \in DOMAIN um.url_queue :
            LET f == um.url_queue[i] IN
            \/ KeyLess(last.entry, f)
            \/ /\ KeyOf(f) = KeyOf(last.entry)
               /\ accept_no[last.entry[3]] < accept_no[f[3]]

\* C4 witness: priorities 2, 0, 1, 0 were accepted in this order at depth 0 and
\* the first get_next_url returned the priority-0 entry accepted first
C4_Witness ==
    /\ last.op = "get_next_url" /\ last.entry # NoEntry
    /\ last.entry[1] = 0 /\ accept_no[last.entry[3]] = 2
    /\ Len(um.url_queue) = 3
    /\ \A i \in DOMAIN um.url_queue : um.url_queue[i][2] = 0
    /\ \E i, j, k \in DOMAIN um.url_queue :
          /\ um.url_queue[i][1] = 2 /\ accept_no[um.url_queue[i][3]] = 1
          /\ um.url_queue[j][1] = 1 /\ accept_no[um.url_queue[j][3]] = 3
          /\ um.url_queue[k][1] = 0 /\ accept_no[um.url_queue[k][3]] = 4

\* C13 (enqueue decision): add_url returns True exactly when the URL normalizes
\* to a canonical URL, its hash is not in url_hashes, depth <= max_depth and
\* |visited| < max_pages; the checks apply in that order (a duplicate over the
\* depth limit is counted in duplicate_count, not in total_skipped); an accepted
\* URL is appended to the queue and its hash added to url_hashes.
C13_EnqueueDecision ==
    [][last'.op = "add_url" =>
          LET url == last'.url
              depth == last'.entry[2]
              priority == last'.entry[1]
              n == NormalizeUrl(url)
              valid == n # None
              dup == valid /\ UrlHash(n) \in um.url_hashes
              deep == depth > um.max_depth
              full == Cardinality(um.visited_urls) >= um.max_pages
          IN  /\ last'.ret <=> (valid /\ ~dup /\ ~deep /\ ~full)
              /\ last'.counted = IF ~valid THEN "total_skipped"
                                 ELSE IF dup THEN "duplicate_count"
                                 ELSE IF deep \/ full THEN "total_skipped"
                                 ELSE "total_queued"
              /\ last'.ret =>
                    /\ um'.url_queue =
                          Append(um.url_queue,
                                 <<IF priority = NoPriority THEN 3 ELSE priority,
                                   depth, n, None>>)
                    /\ um'.url_hashes = um.url_hashes \cup {UrlHash(n)}
              /\ ~last'.ret =>
                    /\ um'.url_queue = um.url_queue
                    /\ um'.url_hashes = um.url_hashes]_vars

\* C13 witness: add_url of a URL that is in the dedup index, called with a depth
\* over max_depth, has returned False and raised duplicate_count
C13_Witness ==
    /\ last.op = "add_url" /\ ~last.ret
    /\ last.entry[2] > um.max_depth
    /\ NormalizeUrl(last.url) # None
    /\ UrlHash(NormalizeUrl(last.url)) \in um.url_hashes
    /\ last.counted = "duplicate_count"
    /\ um.stats.total_skipped = 0


---------------------------------------------------------------------------
(* NGOScraper: configuration and helpers                                   *)

\* config['session']['checkpoint_interval']
CheckpointInterval == 2

\* config['session']['save_progress']
SaveProgress == TRUE

\* config['crawl']['respect_robots_txt']
RespectRobotsTxt == TRUE

\* config['crawl']['follow_external_links']
FollowExternalLinks == FALSE

\* config['url_exclusions']
UrlExclusions == <<"logout">>

\* config['priority_patterns']
PriorityPatterns == [high |-> <<"d">>, medium |-> <<"news">>, low |-> <<"archive">>]

\* the seed URLs of the organisation
Seeds == <<SeedRoot>>

\* "pattern.lower() in url.lower()" for a pattern that is a word of a path
UrlContains(u, pattern) ==
    \E i \in DOMAIN u.segs : Lower(pattern) \in Range(u.segs[i])

\* URLManager.should_exclude_url
ShouldExcludeUrl(u, exclusion_patterns) ==
    \E i \in DOMAIN exclusion_patterns : UrlContains(u, exclusion_patterns[i])

\* URLManager.get_url_priority
GetUrlPriority(u, priority_patterns) ==
    IF \E i \in DOMAIN priority_patterns.high : UrlContains(u, priority_patterns.high[i])
    THEN 0
    ELSE IF \E i \in DOMAIN priority_patterns.medium :
                UrlContains(u, priority_patterns.medium[i])
    THEN 1
    ELSE IF \E i \in DOMAIN priority_patterns.low : UrlContains(u, priority_patterns.low[i])
    THEN 2
    ELSE 3

\* one add_url call
Call(url, depth, parent_url, priority) ==
    [url |-> url, depth |-> depth, parent_url |-> parent_url, priority |-> priority]

\* a sequence of add_url calls made one after the other, with the history
RECURSIVE AddCalls(_, _)
AddCalls(st, calls) ==
    IF calls = <<>> THEN st
    ELSE LET c == Head(calls)
             r == AddUrl(st.um, c.url, c.depth, c.parent_url, c.priority)
         IN  AddCalls([um |-> r.um, session |-> Accepted(st.session, c.url, r.ret)],
                      Tail(calls))

\* the mutant of InternalLinks: every link is followed
InternalLinksAll(links) == links

\* _process_html_page: internal_links
InternalLinks(links) ==
    IF FollowExternalLinks = FALSE
    THEN SelectSeq(links, LAMBDA link : link.type = "internal")
    ELSE links

\* _process_html_page: "for link in internal_links": the add_url calls
RECURSIVE LinkCalls(_, _, _)
LinkCalls(url, depth, internal_links) ==
    IF internal_links = <<>> THEN <<>>
    ELSE LET link == Head(internal_links)
             rest == LinkCalls(url, depth, Tail(internal_links))
         IN  IF ShouldExcludeUrl(link.url, UrlExclusions) THEN rest
             ELSE <<Call(link.url, depth + 1, url,
                         GetUrlPriority(link.url, PriorityPatterns))>> \o rest

\* _process_html_page: "for doc in documents": the add_url calls
DocumentCalls(url, depth, documents) ==
    [i \in DOMAIN documents |-> Call(documents[i].url, depth, url, 0)]

\* NGOScraper._process_html_page
ProcessHtmlPage(st, url, depth, links, documents) ==
    AddCalls(AddCalls(st, LinkCalls(url, depth, InternalLinks(links))),
             DocumentCalls(url, depth, documents))

\* JSON text: an array, and null; strings, numbers and objects with string
\* keys are written as they are
JsonArray(items) == [array |-> items]

JsonNull == [null |-> TRUE]

\* json.dump of checkpoint_data: lists and the tuples of url_queue become
\* arrays, a parent_url of None becomes null
JsonDump(data) ==
    LET s == data.url_manager_state IN
    [timestamp |-> data.timestamp,
     url_manager_state |->
        [base_domain |-> s.base_domain,
         max_depth |-> s.max_depth,
         max_pages |-> s.max_pages,
         visited_urls |-> JsonArray(s.visited_urls),
         url_hashes |-> JsonArray(s.url_hashes),
         failed_urls |-> s.failed_urls,
         url_queue |-> JsonArray(
            [i \in DOMAIN s.url_queue |->
                LET e == s.url_queue[i] IN
                JsonArray(<<e[1], e[2], e[3], IF e[4] = None THEN JsonNull ELSE e[4]>>)]),
         stats |-> s.stats],
     stats |-> data.stats]

\* json.load: arrays become lists (a queue entry comes back as a list of four
\* items, which the code unpacks like the tuple), null becomes None
JsonLoad(text) ==
    [k \in DOMAIN text |->
        IF k = "url_manager_state"
        THEN LET s == text.url_manager_state IN
             [base_domain |-> s.base_domain,
              max_depth |-> s.max_depth,
              max_pages |-> s.max_pages,
              visited_urls |-> s.visited_urls.array,
              url_hashes |-> s.url_hashes.array,
              failed_urls |-> s.failed_urls,
              url_queue |->
                 [i \in DOMAIN s.url_queue.array |->
                     LET e == s.url_queue.array[i].array IN
                     <<e[1], e[2], e[3], IF e[4] = JsonNull THEN None ELSE e[4]>>],
              stats |-> s.stats]
        ELSE text[k]]

\* what open(progress_file, 'w') and a json.dump that did not finish leave in
\* the file: text that json.load rejects
JsonTorn == [torn |-> TRUE]

\* _save_checkpoint: checkpoint_data
CheckpointData(m, st) ==
    [timestamp |-> "now", url_manager_state |-> SaveState(m), stats |-> st]

\* dict.update
Update(d, e) == [k \in DOMAIN d \cup DOMAIN e |-> IF k \in DOMAIN e THEN e[k] ELSE d[k]]

\* the mutant of LoadCheckpoint: load_state is not called, only the statistics
\* are restored
LoadCheckpointWithoutFrontier(m, st, file) ==
    IF ~file.exists \/ file.text = JsonTorn
    THEN [ok |-> FALSE, restored |-> FALSE, um |-> m, stats |-> st]
    ELSE [ok |-> TRUE, restored |-> TRUE, um |-> m,
          stats |-> Update(st, JsonLoad(file.text).stats)]

\* NGOScraper._load_checkpoint: whether it returned True, whether load_state
\* was called, the URLManager and the statistics after it. A key that the
\* decoded file lacks raises KeyError where the code reads it; "except
\* Exception" then returns False with what was assigned before
LoadCheckpoint(m, st, file) ==
    IF ~file.exists THEN [ok |-> FALSE, restored |-> FALSE, um |-> m, stats |-> st]
    ELSE IF file.text = JsonTorn
    THEN [ok |-> FALSE, restored |-> FALSE, um |-> m, stats |-> st]
    ELSE LET checkpoint_data == JsonLoad(file.text) IN
         IF "url_manager_state" \notin DOMAIN checkpoint_data
         THEN [ok |-> FALSE, restored |-> FALSE, um |-> m, stats |-> st]
         ELSE LET m1 == LoadState(m, checkpoint_data.url_manager_state) IN
              IF "stats" \notin DOMAIN checkpoint_data
              THEN [ok |-> FALSE, restored |-> TRUE, um |-> m1, stats |-> st]
              ELSE LET st1 == Update(st, checkpoint_data.stats) IN
                   [ok |-> "timestamp" \in DOMAIN checkpoint_data,
                    restored |-> TRUE, um |-> m1, stats |-> st1]

\* the mutant of BudgetReached: the comparison is off by one
BudgetReachedOffByOne(m, max_pages) == Cardinality(m.visited_urls) > max_pages

\* scrape_ngo: "if len(self.url_manager.visited_urls) >= max_pages: break"
BudgetReached(m, max_pages) == Cardinality(m.visited_urls) >= max_pages

\* the mutant of CheckpointDue: the comparison is off by one
CheckpointDueLate(n) == SaveProgress /\ n > CheckpointInterval

\* scrape_ngo: "if save_progress and requests_since_checkpoint >=
\* checkpoint_interval", n being the counter after its increment
CheckpointDue(n) == SaveProgress /\ n >= CheckpointInterval

\* the URLs a history counts at least once
Counted(f) == {c \in DOMAIN f : f[c] > 0}


---------------------------------------------------------------------------
(* NGOScraper.scrape_ngo                                                   *)

\* bound on the number of scrape_ngo calls in a behaviour
MaxRuns == 2

\* no URLManager: before the first scrape_ngo call of a process
NoManager == NewURLManager("", 0, 0)

Init ==
    /\ pc = "idle"
    /\ um = NoManager
    /\ run = NoRun
    /\ stats = InitStats
    /\ requests_since_checkpoint = 0
    /\ progress_file = NoFile
    /\ last = NoEvent
    /\ accept_no = NoAcceptNo
    /\ restored_visited = {}
    /\ restored_fetched = {}
    /\ session = NoSession
    /\ crashed_fetched = {}
    /\ runs = 0

\* scrape_ngo up to its main loop: _initialize_for_ngo, the optional
\* _load_checkpoint, and the seeds when the queue is empty
ScrapeNgoOf(seed_urls, max_depth, max_pages, resume) ==
    LET fresh == NewURLManager(seed_urls[1].host, max_depth, max_pages)
        loaded == IF resume /\ SaveProgress
                  THEN LoadCheckpoint(fresh, stats, progress_file)
                  ELSE [ok |-> FALSE, restored |-> FALSE, um |-> fresh, stats |-> stats]
        seeded == IF QueueSize(loaded.um) = 0
                  THEN AddCalls([um |-> loaded.um, session |-> NoSession],
                                [i \in DOMAIN seed_urls |-> Call(seed_urls[i], 0, None, 0)])
                  ELSE [um |-> loaded.um, session |-> NoSession]
    IN  /\ pc = "idle"
        /\ runs < MaxRuns
        /\ runs' = runs + 1
        /\ pc' = "running"
        /\ run' = [max_depth |-> max_depth, max_pages |-> max_pages]
        /\ um' = seeded.um
        /\ session' = seeded.session
        /\ stats' = loaded.stats
        /\ restored_visited' = IF loaded.restored THEN loaded.um.visited_urls ELSE {}
        /\ restored_fetched' = IF loaded.restored THEN progress_file.fetched ELSE {}
        /\ crashed_fetched' = IF loaded.restored THEN crashed_fetched ELSE {}
        /\ last' = Event("scrape_ngo", None, loaded.ok, NoEntry, "none")
        /\ UNCHANGED <<requests_since_checkpoint, progress_file, accept_no>>

\* scrape_ngo for the organisation of Seeds
ScrapeNgo(max_depth, max_pages, resume) == ScrapeNgoOf(Seeds, max_depth, max_pages, resume)

\* the URLs fetched in this run or in the runs whose checkpoint it resumed
Fetched == restored_fetched \cup Counted(session.fetched)

\* "URL queue exhausted": the loop ends
QueueExhausted ==
    /\ pc = "running"
    /\ GetNextUrl(um).entry = NoEntry
    /\ pc' = "idle"
    /\ crashed_fetched' = {}
    /\ last' = Event("exhausted", None, FALSE, NoEntry, "none")
    /\ UNCHANGED <<um, run, stats, requests_since_checkpoint, progress_file, accept_no,
                   restored_visited, restored_fetched, session, runs>>

\* "Reached max pages limit": the loop ends, the entry just popped is dropped
BudgetStop ==
    LET r == GetNextUrl(um) IN
    /\ pc = "running"
    /\ r.entry # NoEntry
    /\ BudgetReached(r.um, run.max_pages)
    /\ pc' = "idle"
    /\ um' = r.um
    /\ session' = Dequeued(session, r.entry)
    /\ crashed_fetched' = {}
    /\ last' = Event("budget", r.entry[3], FALSE, r.entry, "none")
    /\ UNCHANGED <<run, stats, requests_since_checkpoint, progress_file, accept_no,
                   restored_visited, restored_fetched, runs>>

\* the entry get_next_url pops when the loop goes on to look at it
Popped(r) ==
    /\ pc = "running"
    /\ r.entry # NoEntry
    /\ ~BudgetReached(r.um, run.max_pages)

\* "Skip if already visited"
SkipVisited ==
    LET r == GetNextUrl(um) IN
    /\ Popped(r)
    /\ IsVisited(r.um, r.entry[3])
    /\ um' = r.um
    /\ session' = Dequeued(session, r.entry)
    /\ last' = Event("skip", r.entry[3], FALSE, r.entry, "none")
    /\ UNCHANGED <<pc, run, stats, requests_since_checkpoint, progress_file, accept_no,
                   restored_visited, restored_fetched, crashed_fetched, runs>>

\* _fetch_url returns None on "Blocked by robots.txt"; the loop marks the URL visited
FetchDenied ==
    LET r == GetNextUrl(um) IN
    /\ Popped(r)
    /\ ~IsVisited(r.um, r.entry[3])
    /\ RespectRobotsTxt
    /\ um' = MarkVisited(r.um, r.entry[3])
    /\ session' = Dequeued(session, r.entry)
    /\ last' = Event("denied", r.entry[3], FALSE, r.entry, "none")
    /\ UNCHANGED <<pc, run, stats, requests_since_checkpoint, progress_file, accept_no,
                   restored_visited, restored_fetched, crashed_fetched, runs>>

\* the mutant of AfterOutcome: a failed fetch ends the loop
AfterOutcomeStopOnFailure(outcome) == IF outcome = "fetch_failed" THEN "idle" ELSE "running"

\* scrape_ngo's "while True": after the iteration of a dequeued URL, whatever
\* its outcome, the loop goes to its next iteration
AfterOutcome(outcome) == "running"

\* _fetch_url fails: a response with another status than 200 (got_response), or
\* an exception of session.get; mark_failed, then the loop marks the URL visited
\* traced is what the history keeps of the failure: whether the branch slept
\* the error delay, and the kind of the failure
FetchFailedTraced(error, got_response, traced) ==
    LET r == GetNextUrl(um)
        url == r.entry[3]
    IN  /\ Popped(r)
        /\ ~IsVisited(r.um, url)
        /\ pc' = AfterOutcome("fetch_failed")
        /\ stats' = [stats EXCEPT
                       !.total_requests = IF got_response THEN @ + 1 ELSE @,
                       !.failed_requests = @ + 1]
        /\ um' = MarkVisited(MarkFailed(r.um, url, error), url)
        /\ session' = [Dequeued(session, r.entry) EXCEPT !.fetched[url] = @ + 1]
        /\ last' = Event("fetch_failed", url, traced[1], r.entry, traced[2])
        /\ UNCHANGED <<run, requests_since_checkpoint, progress_file, accept_no,
                       restored_visited, restored_fetched, crashed_fetched, runs>>

FetchFailed(error, got_response) ==
    FetchFailedTraced(error, got_response, <<FALSE, "none">>)

\* the branches of _fetch_url that report a failure
FailureKinds == {"http_status", "timeout", "request_error", "unexpected"}

\* the description each branch gives to mark_failed
ErrorOf(kind) ==
    CASE kind = "http_status" -> "HTTP 404"
      [] kind = "timeout" -> "Timeout"
      [] kind = "request_error" -> "ConnectionError"
      [] OTHER -> "ValueError"

\* the branches that end with time.sleep(delay_on_error)
DelayOnError(kind) == kind \in {"timeout", "request_error"}

\* _fetch_url fails in the branch of the given kind; total_requests counts the
\* calls of session.get that returned a response
FetchError(kind) ==
    FetchFailedTraced(ErrorOf(kind), kind = "http_status", <<DelayOnError(kind), kind>>)

\* _fetch_url succeeds: mark_visited, the page is processed by its content type
\* (links and documents are what the extractor finds on an HTML page; both are
\* empty for a document or another content type), then the checkpoint counter
FetchOkAs(links, documents, outcome) ==
    LET r == GetNextUrl(um)
        url == r.entry[3]
        depth == r.entry[2]
        stats1 == [stats EXCEPT !.total_requests = @ + 1,
                                !.successful_requests = @ + 1]
        st == ProcessHtmlPage(
                  [um |-> MarkVisited(r.um, url),
                   session |-> [Dequeued(session, r.entry) EXCEPT !.fetched[url] = @ + 1]],
                  url, depth, links, documents)
        save == CheckpointDue(requests_since_checkpoint + 1)
    IN  /\ Popped(r)
        /\ ~IsVisited(r.um, url)
        /\ stats' = stats1
        /\ um' = st.um
        /\ session' = st.session
        /\ requests_since_checkpoint' = IF save THEN 0 ELSE requests_since_checkpoint + 1
        /\ progress_file' =
              IF save
              THEN [exists |-> TRUE,
                    text |-> JsonDump(CheckpointData(st.um, stats1)),
                    fetched |-> restored_fetched \cup Counted(st.session.fetched)]
              ELSE progress_file
        /\ last' = Event(outcome, url, save, r.entry, "none")
        /\ UNCHANGED <<pc, run, accept_no, restored_visited, restored_fetched,
                       crashed_fetched, runs>>

FetchOk(links, documents) == FetchOkAs(links, documents, "fetch_ok")

\* the fetch succeeds and _process_html_page or _process_document raises (a
\* storage error in save_page or save_document, an extractor error): the
\* exception is caught and logged there; the links enqueued before it stay
ProcessingError(links) == FetchOkAs(links, <<>>, "process_error")

\* the process dies while scrape_ngo runs: only the checkpoint file is left
Crash ==
    /\ pc = "running"
    /\ pc' = "idle"
    /\ um' = NoManager
    /\ run' = NoRun
    /\ stats' = InitStats
    /\ requests_since_checkpoint' = 0
    /\ session' = NoSession
    /\ restored_visited' = {}
    /\ restored_fetched' = {}
    /\ crashed_fetched' = Fetched
    /\ last' = Event("crash", None, FALSE, NoEntry, "none")
    /\ UNCHANGED <<progress_file, accept_no, runs>>

\* an interruption signal (KeyboardInterrupt) arrives while scrape_ngo runs:
\* neither scrape_ngo nor scrape_from_config ("except Exception") handles it,
\* the process ends without a call of _save_checkpoint
Interrupt ==
    /\ pc = "running"
    /\ pc' = "idle"
    /\ um' = NoManager
    /\ run' = NoRun
    /\ stats' = InitStats
    /\ requests_since_checkpoint' = 0
    /\ session' = NoSession
    /\ restored_visited' = {}
    /\ restored_fetched' = {}
    /\ crashed_fetched' = Fetched
    /\ last' = Event("interrupt", None, FALSE, NoEntry, "none")
    /\ UNCHANGED <<progress_file, accept_no, runs>>

\* the process dies inside _save_checkpoint, after open(..., 'w') truncated the
\* file and before json.dump finished: the fetch was made, the file is torn
CrashInCheckpoint ==
    LET r == GetNextUrl(um)
        url == r.entry[3]
    IN  /\ Popped(r)
        /\ ~IsVisited(r.um, url)
        /\ CheckpointDue(requests_since_checkpoint + 1)
        /\ pc' = "idle"
        /\ um' = NoManager
        /\ run' = NoRun
        /\ stats' = InitStats
        /\ requests_since_checkpoint' = 0
        /\ session' = NoSession
        /\ restored_visited' = {}
        /\ restored_fetched' = {}
        /\ crashed_fetched' = Fetched \cup {url}
        /\ progress_file' = [exists |-> TRUE, text |-> JsonTorn, fetched |-> {}]
        /\ last' = Event("crash", None, FALSE, NoEntry, "none")
        /\ UNCHANGED <<accept_no, runs>>

\* a link as content_extractor.extract_links returns it
Link(u) == [url |-> u, type |-> "internal"]

\* the pages the fetches return, each as the links and the document links found
\* on it: no link, one link, two links, or a link and a document
Pages ==
    {<<<<>>, <<>>>>,
     <<<<Link(PageAVariant)>>, <<>>>>,
     <<<<Link(ParamDir)>>, <<>>>>,
     <<<<Link(ParamPage), Link(ParamFile)>>, <<>>>>,
     <<<<Link(PageAVariant)>>, <<Link(Report)>>>>}

Next ==
    \/ \E scope \in Scopes, resume \in BOOLEAN : ScrapeNgo(scope[1], scope[2], resume)
    \/ QueueExhausted
    \/ BudgetStop
    \/ SkipVisited
    \/ FetchDenied
    \/ FetchFailed("Timeout", FALSE)
    \/ \E page \in Pages : FetchOk(page[1], page[2])
    \/ Crash
    \/ Interrupt
    \/ CrashInCheckpoint

Spec == Init /\ [][Next]_vars

\* the seed URLs of a second organisation
PartnerSeeds == <<Partner>>

\* scrape_from_config: the organisations of the NGO list, each with its seeds
Organisations == {Seeds, PartnerSeeds}

\* the pages of the site that the next fetch goes to: no link, or a link to
\* the report of that site
PagesOfSite(m) ==
    LET r == GetNextUrl(m) IN
    IF r.entry = NoEntry THEN {}
    ELSE {<<<<>>, <<>>>>,
          <<<<Link([Report EXCEPT !.host = r.entry[3].host])>>, <<>>>>}

\* scrape_from_config: one scrape_ngo call after the other in one process, all
\* with the same resume flag and the one progress file of the NGOScraper
NextOrganisations ==
    \/ \E seed_urls \in Organisations, scope \in Scopes, resume \in BOOLEAN :
            ScrapeNgoOf(seed_urls, scope[1], scope[2], resume)
    \/ QueueExhausted
    \/ BudgetStop
    \/ FetchDenied
    \/ \E page \in PagesOfSite(um) : FetchOk(page[1], page[2])

SpecOrganisations == Init /\ [][NextOrganisations]_vars

\* the pages of a crawl whose fetches and page processing can fail
ErrorPages ==
    {<<<<>>, <<>>>>,
     <<<<Link(PageAVariant)>>, <<>>>>,
     <<<<Link(PageA), Link(Report)>>, <<>>>>}

NextErrors ==
    \/ \E scope \in Scopes, resume \in BOOLEAN : ScrapeNgo(scope[1], scope[2], resume)
    \/ QueueExhausted
    \/ BudgetStop
    \/ FetchDenied
    \/ \E kind \in FailureKinds : FetchError(kind)
    \/ \E page \in ErrorPages : FetchOk(page[1], page[2])
    \/ \E page \in ErrorPages : ProcessingError(page[1])

SpecErrors == Init /\ [][NextErrors]_vars

\* the keys of the checkpoint file that _load_checkpoint reads
CheckpointKeys == {"url_manager_state", "stats", "timestamp"}

\* between two runs the checkpoint file is replaced by one that lacks a key
\* (written by hand or by another version of the program)
CheckpointWithoutKey(key) ==
    /\ pc = "idle"
    /\ progress_file.exists
    /\ progress_file.text # JsonTorn
    /\ key \in DOMAIN progress_file.text
    /\ progress_file' = [progress_file EXCEPT !.text = Without(@, key)]
    /\ last' = Event("file_replaced", None, FALSE, NoEntry, key)
    /\ UNCHANGED <<pc, um, run, stats, requests_since_checkpoint, accept_no,
                   restored_visited, restored_fetched, session, crashed_fetched, runs>>

\* the pages of a crawl that is resumed from the files found on disk
LoadPages ==
    {<<<<>>, <<>>>>,
     <<<<Link(PageAVariant), Link(Report)>>, <<>>>>}

NextLoad ==
    \/ \E scope \in Scopes, resume \in BOOLEAN : ScrapeNgo(scope[1], scope[2], resume)
    \/ QueueExhausted
    \/ BudgetStop
    \/ FetchFailed("Timeout", FALSE)
    \/ \E page \in LoadPages : FetchOk(page[1], page[2])
    \/ Crash
    \/ CrashInCheckpoint
    \/ \E key \in CheckpointKeys : CheckpointWithoutKey(key)

SpecLoad == Init /\ [][NextLoad]_vars

\* the pages of a site with URLs that the exclusion patterns match: no link, an
\* excluded link next to another link, and an excluded document link
ExclusionPages ==
    {<<<<>>, <<>>>>,
     <<<<Link(Logout), Link(PageA)>>, <<>>>>,
     <<<<Link(PageAVariant)>>, <<Link(LogoutDoc)>>>>}

NextExclusion ==
    \/ \E scope \in Scopes, resume \in BOOLEAN : ScrapeNgo(scope[1], scope[2], resume)
    \/ QueueExhausted
    \/ BudgetStop
    \/ FetchDenied
    \/ \E page \in ExclusionPages : FetchOk(page[1], page[2])
    \/ Crash

SpecExclusion == Init /\ [][NextExclusion]_vars

\* a link to another site as content_extractor.extract_links returns it
ExternalLink(u) == [url |-> u, type |-> "external"]

\* a page with three links into the site and one link to another site
LinkPage == <<<<Link(ParamPage), Link(ParamFile), ExternalLink(Partner), Link(Report)>>, <<>>>>

\* the pages of a site that links to another site: no link, three internal
\* links and an external one, an external link only, and a page whose
\* document link points to the other site
LinkPages ==
    {<<<<>>, <<>>>>,
     LinkPage,
     <<<<ExternalLink(Partner)>>, <<>>>>,
     <<<<Link(PageAVariant)>>, <<Link(PartnerDoc)>>>>}

NextLinks ==
    \/ \E scope \in Scopes, resume \in BOOLEAN : ScrapeNgo(scope[1], scope[2], resume)
    \/ QueueExhausted
    \/ BudgetStop
    \/ FetchDenied
    \/ FetchFailed("Timeout", FALSE)
    \/ \E page \in LinkPages : FetchOk(page[1], page[2])
    \/ Crash

SpecLinks == Init /\ [][NextLinks]_vars

\* the pages of a site with document links: no link, a document link that is
\* not among the page's ordinary links, and one that is
DocumentPages ==
    {<<<<>>, <<>>>>,
     <<<<Link(PageAVariant)>>, <<Link(Report)>>>>,
     <<<<Link(PageA), Link(Report)>>, <<Link(Report)>>>>}

NextDocuments ==
    \/ \E scope \in Scopes, resume \in BOOLEAN : ScrapeNgo(scope[1], scope[2], resume)
    \/ QueueExhausted
    \/ BudgetStop
    \/ FetchDenied
    \/ \E page \in DocumentPages : FetchOk(page[1], page[2])

SpecDocuments == Init /\ [][NextDocuments]_vars

\* the pages of a crawl that is left to run to its end: no link, a link to one
\* of two pages, and a link with a document link
TerminationPages ==
    {<<<<>>, <<>>>>,
     <<<<Link(ParamPage)>>, <<>>>>,
     <<<<Link(ParamFile)>>, <<>>>>,
     <<<<Link(PageA)>>, <<Link(Report)>>>>}

\* one iteration of scrape_ngo's "while True" loop, whatever it finds: the
\* queue empty, the budget reached, a visited URL, or a fetch of any outcome
LoopStep ==
    \/ QueueExhausted
    \/ BudgetStop
    \/ SkipVisited
    \/ FetchDenied
    \/ FetchFailed("Timeout", FALSE)
    \/ \E page \in TerminationPages : FetchOk(page[1], page[2])

\* the (max_depth, max_pages) pairs of the crawls that are left to run to their end
TerminationScopes == {<<1, 2>>, <<2, 3>>}

NextTermination ==
    \/ \E scope \in TerminationScopes, resume \in BOOLEAN : ScrapeNgo(scope[1], scope[2], resume)
    \/ LoopStep

\* a process that is not killed: the loop is sequential code whose calls
\* return (requests time out), so an iteration that can be made is made
SpecTermination == Init /\ [][NextTermination]_vars /\ WF_vars(LoopStep)

---------------------------------------------------------------------------
(* Claims about the crawl                                                  *)

C3_DepthBound ==
    (run # NoRun /\ last.entry # NoEntry) => last.entry[2] <= run.max_depth

C6_NoRevisit ==
    \A c \in Canon : session.fetched[c] > 0 => c \notin restored_visited

\* C7 (no URL fetched twice under crash), as stated: after a crash and a resume
\* from the last checkpoint, no URL fetched before the crash is fetched again.
C7_NoRefetchAfterCrash ==
    \A c \in crashed_fetched : session.fetched[c] = 0

\* C7, amended: after a crash and a resume from the last checkpoint, no URL
\* whose fetch came before that checkpoint was written is fetched again (the
\* URLs fetched between the last checkpoint and the crash can be).
C7_NoRefetchOfCheckpointed ==
    \A c \in restored_fetched : session.fetched[c] = 0

\* C7 witness: the process crashed after fetching more than the checkpoint
\* holds, the crawl was resumed from it and has fetched again
C7_Witness ==
    /\ restored_fetched # {}
    /\ crashed_fetched \ restored_fetched # {}
    /\ restored_fetched \subseteq crashed_fetched
    /\ last.op = "fetch_ok"

\* C8 (at most once per session): in one scrape_ngo run a canonical URL is
\* accepted by add_url at most once, dequeued at most once and fetched at most
\* once, and no add_url is accepted for it after it was dequeued.
C8_AtMostOnce ==
    /\ [](\A c \in Canon : /\ Len(session.accepted[c]) <= 1
                           /\ session.dequeued[c] <= 1
                           /\ session.fetched[c] <= 1)
    /\ [][pc = "running" =>
            \A c \in Canon : session.dequeued[c] > 0 =>
                Len(session'.accepted[c]) <= Len(session.accepted[c])]_vars

\* C8 witness: PageA was accepted once, dequeued and fetched, and the link to it
\* found on its own page was refused as a duplicate
C8_Witness ==
    /\ last.op = "fetch_ok" /\ last.url = PageA
    /\ session.accepted[PageA] = <<PageAVariant>>
    /\ session.dequeued[PageA] = 1
    /\ session.fetched[PageA] = 1
    /\ restored_visited = {}
    /\ um.stats.duplicate_count = 1

\* C9 (dedup index covers the frontier): the hash of every pending URL and of
\* every visited URL is in url_hashes.
C9_IndexCoversFrontier ==
    /\ \A i \in DOMAIN um.url_queue : UrlHash(um.url_queue[i][3]) \in um.url_hashes
    /\ \A v \in um.visited_urls : UrlHash(v) \in um.url_hashes

\* C10 (pending and visited are disjoint): no URL of a pending entry is in the
\* visited set.
C10_PendingVisitedDisjoint ==
    \A i \in DOMAIN um.url_queue : um.url_queue[i][3] \notin um.visited_urls

\* C11 (atomic checkpoint save): whenever the process ended, the checkpoint file
\* holds a complete snapshot (the previous one or the new one), never a
\* truncated one.
C11_AtomicSave ==
    progress_file.exists => progress_file.text # JsonTorn

\* C12 (final checkpoint on interruption): when an interruption signal stops a
\* running crawl, the frontier as it is at that moment is saved to the
\* checkpoint file before the process exits.
C12_FinalCheckpoint ==
    [][last'.op = "interrupt" =>
          /\ progress_file'.exists
          /\ progress_file'.text = JsonDump(CheckpointData(um, stats))]_vars


\* C14 (import replaces state): after load_state(s) the visited set, dedup
\* index, failed map, pending queue and counters are what s alone gives: the
\* same as after loading s into a URLManager that held nothing.
C14_ImportReplaces ==
    [][last'.op = "load_state" =>
          LET other == LoadState(NoManager, last'.entry[1])
          IN  /\ um'.visited_urls = other.visited_urls
              /\ um'.url_hashes = other.url_hashes
              /\ um'.failed_urls = other.failed_urls
              /\ um'.url_queue = other.url_queue
              /\ um'.stats = other.stats]_vars

\* C15 (snapshot defaults): a field the snapshot lacks gets its default after
\* load_state (empty visited set, empty dedup index, empty failed map, empty
\* queue, zeroed counters), and a field load_state does not know changes nothing.
C15_SnapshotDefaults ==
    [][last'.op = "load_state" =>
          LET s == last'.entry[1]
              known == [k \in DOMAIN s \ {"schema_version"} |-> s[k]]
          IN  /\ "visited_urls" \notin DOMAIN s => um'.visited_urls = {}
              /\ "url_hashes" \notin DOMAIN s => um'.url_hashes = {}
              /\ "failed_urls" \notin DOMAIN s => um'.failed_urls = EmptyMap
              /\ "url_queue" \notin DOMAIN s => um'.url_queue = <<>>
              /\ "stats" \notin DOMAIN s => um'.stats = ZeroStats
              /\ um' = LoadState(um, known)]_vars

\* C16 (seeds on start): scrape_ngo calls add_url for the seeds only when the
\* queue is empty after the optional checkpoint load: after a load that restored
\* a non-empty queue, the queue, dedup index and counters are the restored ones
\* (no add_url call was made); otherwise add_url was called once per seed.
C16_SeedsOnStart ==
    last.op = "scrape_ngo" =>
        LET AddUrlCalls(st) ==
                st.total_queued + st.duplicate_count + st.total_skipped
        IN  IF last.ret
            THEN LET ck == JsonLoad(progress_file.text).url_manager_state IN
                 IF ck.url_queue # <<>>
                 THEN /\ um.url_queue = ck.url_queue
                      /\ um.url_hashes = Range(ck.url_hashes)
                      /\ um.stats = ck.stats
                      /\ \A c \in Canon : session.accepted[c] = <<>>
                 ELSE AddUrlCalls(um.stats) = AddUrlCalls(ck.stats) + Len(Seeds)
            ELSE /\ AddUrlCalls(um.stats) = Len(Seeds)
                 /\ um.url_queue = <<<<0, 0, NormalizeUrl(Seeds[1]), None>>>>

\* C16 witness: scrape_ngo has just resumed a checkpoint with a pending entry;
\* the queue is the restored one and no seed is in it
C16_Witness ==
    /\ last.op = "scrape_ngo" /\ last.ret
    /\ um.url_queue # <<>>
    /\ um.url_queue = JsonLoad(progress_file.text).url_manager_state.url_queue
    /\ \A i \in DOMAIN um.url_queue : um.url_queue[i][3] # NormalizeUrl(Seeds[1])
    /\ UrlHash(NormalizeUrl(Seeds[1])) \in um.url_hashes

\* the URLs that the pages reference as an external link and in no other way
ExternalOnly ==
    LET LinkUrls(type) ==
            UNION {{page[1][i].url : i \in {j \in DOMAIN page[1] : page[1][j].type = type}} :
                   page \in LinkPages}
        DocumentUrls == UNION {{page[2][i].url : i \in DOMAIN page[2]} : page \in LinkPages}
    IN  LinkUrls("external") \ (LinkUrls("internal") \cup DocumentUrls \cup Range(Seeds))

\* the entries that a step appended to the pending queue
Enqueued(before, after) == Range(after.url_queue) \ Range(before.url_queue)

\* the fetched page is LinkPage and its three internal links are new
FetchOfLinkPage ==
    /\ FetchOk(LinkPage[1], LinkPage[2])
    /\ \A l \in Range(InternalLinks(LinkPage[1])) :
            /\ UrlHash(NormalizeUrl(l.url)) \notin um.url_hashes
            /\ ~ShouldExcludeUrl(l.url, UrlExclusions)

\* exactly three entries were enqueued, all at depth d + 1, none for the
\* external link
ThreeEnqueued ==
    LET d == last'.entry[2] IN
    /\ Len(um'.url_queue) = Len(um.url_queue) - 1 + 3
    /\ Cardinality(Enqueued(um, um')) = 3
    /\ \A e \in Enqueued(um, um') : e[2] = d + 1
    /\ {e[3] : e \in Enqueued(um, um')} =
            {NormalizeUrl(l.url) : l \in Range(InternalLinks(LinkPage[1]))}
    /\ um'.stats.total_queued = um.stats.total_queued + 3

\* C17 (external links stay out), first part: with follow_external_links =
\* false no URL that the pages reference only as an external link is ever in
\* the pending queue, the dedup index or the visited set, and none was accepted.
C17_ExternalStayOut ==
    \A u \in ExternalOnly :
        LET c == NormalizeUrl(u) IN
        /\ \A i \in DOMAIN um.url_queue : um.url_queue[i][3] # c
        /\ UrlHash(c) \notin um.url_hashes
        /\ c \notin um.visited_urls
        /\ session.accepted[c] = <<>>
        /\ accept_no[c] = 0

C18_NormalizeIdempotent ==
    /\ \A i \in DOMAIN um.url_queue :
            NormalizeUrl(um.url_queue[i][3]) = um.url_queue[i][3]
    /\ last.op = "fetch_ok" =>
            /\ NormalizeUrl(last.entry[3]) = last.entry[3]
            /\ last.entry[3] \in um.visited_urls
            /\ IsVisited(um, last.entry[3])

\* the ways to write a URL that C19 names: scheme and host in other letter
\* case, the default port given, a fragment, the query parameters (of distinct
\* keys) in the other order, a trailing slash on the path
Rewritings(u) ==
    {[u EXCEPT !.scheme = "HTTP"],
     [u EXCEPT !.host = "Example.org"],
     [u EXCEPT !.ports = <<80>>],
     [u EXCEPT !.frag = "top"],
     [u EXCEPT !.query = [i \in DOMAIN u.query |-> u.query[Len(u.query) + 1 - i]]],
     [u EXCEPT !.segs = IF u.segs # <<>> /\ Last(u.segs) = <<"">>
                        THEN u.segs ELSE u.segs \o << <<"">> >>]}

\* C19 (canonicalization equivalence): every URL that differs from a URL given
\* to add_url only in scheme/host letter case, the default port, a fragment, the
\* order of query parameters with distinct keys, or a trailing slash on the
\* path (empty path and root path included) is mapped by normalize_url to the
\* canonical URL of the given one.
C19_EquivalentUrls ==
    last.op = "add_url" /\ NormalizeUrl(last.entry[3]) # None =>
        \A v \in Rewritings(last.entry[3]) :
            NormalizeUrl(v) = NormalizeUrl(last.entry[3])

\* URLManager.get_stats
GetStats(m) ==
    [total_queued |-> m.stats.total_queued,
     total_visited |-> m.stats.total_visited,
     total_failed |-> m.stats.total_failed,
     total_skipped |-> m.stats.total_skipped,
     duplicate_count |-> m.stats.duplicate_count,
     queue_size |-> Len(m.url_queue),
     visited_count |-> Cardinality(m.visited_urls),
     failed_count |-> Cardinality(DOMAIN m.failed_urls)]

\* C20 (mark_visited is idempotent): a mark_visited(u) call that follows a
\* mark_visited(u) call leaves the visited set and every counter that get_stats
\* reports as they were after the first call.
C20_MarkVisitedIdempotent ==
    [][last.op = "mark_visited" /\ last'.op = "mark_visited" /\ last'.url = last.url =>
          /\ um'.visited_urls = um.visited_urls
          /\ GetStats(um') = GetStats(um)]_vars

\* the sites whose URLs a URLManager holds, in any of its collections
SitesIn(m) ==
    {v.host : v \in m.visited_urls}
        \cup {h.md5.host : h \in m.url_hashes}
        \cup {m.url_queue[i][3].host : i \in DOMAIN m.url_queue}
        \cup {k.host : k \in DOMAIN m.failed_urls}

\* C21 (per-organization isolation): when scrape_ngo starts the crawl of an
\* organization, with or without resume, the dedup index, the visited set, the
\* pending queue and the failed map hold no URL of another organization's site,
\* and the scope is the one given for this organization.
C21_OrganisationIsolation ==
    [][\A seed_urls \in Organisations, scope \in Scopes, resume \in BOOLEAN :
            ScrapeNgoOf(seed_urls, scope[1], scope[2], resume) =>
                /\ SitesIn(um') \subseteq {seed_urls[1].host}
                /\ um'.base_domain = seed_urls[1].host
                /\ um'.max_depth = scope[1]
                /\ um'.max_pages = scope[2]]_vars

\* the outcomes of the loop iteration of one dequeued URL
UrlOutcomes == {"skip", "denied", "fetch_failed", "fetch_ok", "process_error"}

\* C22 (per-URL errors do not stop the crawl): after the iteration of a
\* dequeued URL, whatever its outcome (robots denial, failed fetch of any kind,
\* page fetched, page-processing or storage error), the loop of scrape_ngo is
\* still running; it ends only when get_next_url finds the queue empty or when
\* the visited set has reached the page budget.
C22_ErrorsDoNotStop ==
    [][/\ last'.op \in UrlOutcomes => pc' = "running"
       /\ pc = "running" /\ pc' # "running" =>
            \/ last'.op = "exhausted" /\ um.url_queue = <<>>
            \/ last'.op = "budget" /\ Cardinality(um.visited_urls) >= run.max_pages]_vars

\* C22 witness: a fetch has just failed on a non-200 status, the loop is
\* running and an entry is pending for its next iteration
C22_Witness ==
    /\ last.op = "fetch_failed"
    /\ last.counted = "http_status"
    /\ pc = "running"
    /\ um.url_queue # <<>>
    /\ Cardinality(um.visited_urls) < run.max_pages

\* C23 (failed load leaves no partial state): when the _load_checkpoint call
\* of scrape_ngo returned False (file missing, unreadable, or lacking a key),
\* the frontier is the new URLManager with the seeds and nothing else, and the
\* orchestrator statistics are what they were before the call.
C23_FailedLoadLeavesNothing ==
    [][last'.op = "scrape_ngo" /\ ~last'.ret =>
          LET seed == NormalizeUrl(Seeds[1]) IN
          /\ um'.visited_urls = {}
          /\ um'.failed_urls = EmptyMap
          /\ um'.url_hashes = {UrlHash(seed)}
          /\ um'.url_queue = <<<<0, 0, seed, None>>>>
          /\ um'.stats = [ZeroStats EXCEPT !.total_queued = 1]
          /\ um'.max_depth = run'.max_depth
          /\ um'.max_pages = run'.max_pages
          /\ stats' = stats]_vars

\* C24 (corrupt checkpoint fails loudly): a scrape_ngo call with resume
\* requested that finds a checkpoint file it cannot decode does not start the
\* loop of a fresh crawl (whose checkpoint saves would overwrite the file).
C24_CorruptFailsLoudly ==
    [][/\ progress_file.exists
       /\ progress_file.text = JsonTorn
       /\ \E scope \in Scopes : ScrapeNgo(scope[1], scope[2], TRUE)
       => pc' # "running"]_vars

C26_DenialCounter ==
    [][last'.op = "denied" =>
          /\ \/ \E k \in DOMAIN stats : stats'[k] = stats[k] + 1
             \/ \E k \in DOMAIN um.stats \ {"total_visited"} :
                    um'.stats[k] = um.stats[k] + 1
          /\ um'.failed_urls = um.failed_urls
          /\ um'.stats.total_failed = um.stats.total_failed
          /\ stats'.failed_requests = stats.failed_requests]_vars

C28_BackoffAfterFailure ==
    [][last'.op = "fetch_failed" /\ last'.counted \in FailureKinds => last'.ret]_vars

\* a successful iteration saved a checkpoint exactly when it was the K-th one
\* since the counter was last zero, and the snapshot saved is the frontier and
\* the statistics after the entry was marked visited and its links enqueued
SavedOnKth ==
    last'.op = "fetch_ok" =>
        LET n == requests_since_checkpoint + 1 IN
        IF n >= CheckpointInterval
        THEN /\ last'.ret
             /\ requests_since_checkpoint' = 0
             /\ progress_file'.exists
             /\ progress_file'.text = JsonDump(CheckpointData(um', stats'))
             /\ NormalizeUrl(last'.url) \in
                    Range(JsonLoad(progress_file'.text).url_manager_state.visited_urls)
        ELSE /\ ~last'.ret
             /\ requests_since_checkpoint' = n
             /\ progress_file' = progress_file

\* C29 (checkpoint cadence), as stated: the successes are counted from the
\* start of each crawl (the count is zero when scrape_ngo enters its loop), and
\* a checkpoint is saved exactly after each K-th of them, holding the frontier
\* after that entry was marked visited and its links enqueued.
C29_CadenceFromCrawlStart ==
    [][/\ last'.op = "scrape_ngo" => requests_since_checkpoint' = 0
       /\ SavedOnKth]_vars

\* C29, amended: the successes are counted since the last save or, when none
\* was made yet, since the NGOScraper was created: the count is kept from one
\* scrape_ngo call to the next in a process, only successful iterations change
\* it, and it is zero in a new process; a checkpoint is saved exactly when the
\* count reaches K, holding the frontier after that entry was marked visited
\* and its links enqueued.
C29_CadenceSinceLastSave ==
    [][/\ last'.op \in {"scrape_ngo", "exhausted", "budget", "skip", "denied",
                        "fetch_failed"} =>
            /\ requests_since_checkpoint' = requests_since_checkpoint
            /\ progress_file' = progress_file
       /\ last'.op \in {"crash", "interrupt"} => requests_since_checkpoint' = 0
       /\ requests_since_checkpoint' < CheckpointInterval
       /\ SavedOnKth]_vars

\* C29 witness: the first successful fetch of the second crawl of a process
\* saved a checkpoint, the first crawl having left the count at K - 1
C29_Witness ==
    /\ last.op = "fetch_ok"
    /\ last.ret
    /\ runs = 2
    /\ Cardinality(Counted(session.fetched)) = 1
    /\ restored_visited = {}
    /\ progress_file.exists
    /\ progress_file.text = JsonDump(CheckpointData(um, stats))

\* C30 (exclusion before enqueue): no URL found on a fetched page, as a link
\* or as a document link, that matches an exclusion pattern is accepted by
\* add_url, and none is in the pending queue.
C30_ExcludedStayOut ==
    /\ \A c \in Canon : \A i \in DOMAIN session.accepted[c] :
            ~ShouldExcludeUrl(session.accepted[c][i], UrlExclusions)
    /\ \A i \in DOMAIN um.url_queue : ~ShouldExcludeUrl(um.url_queue[i][3], UrlExclusions)

\* the canonical URLs of the document links of a page
DocumentUrlsOf(page) == {NormalizeUrl(page[2][i].url) : i \in DOMAIN page[2]}

\* C31 (document links): every document URL of a page fetched at depth d that
\* the fetch of that page put into the pending queue is queued with priority 0
\* and depth d, also when the URL is among the page's ordinary links; every
\* other entry the fetch enqueued has depth d + 1.
C31_DocumentLinks ==
    [][\A page \in DocumentPages :
          FetchOk(page[1], page[2]) =>
              \A e \in Enqueued(um, um') :
                  IF e[3] \in DocumentUrlsOf(page)
                  THEN e[1] = 0 /\ e[2] = last'.entry[2]
                  ELSE e[2] = last'.entry[2] + 1]_vars

\* C32 (scope is fixed for the session): from the start of scrape_ngo to its
\* end, the depth limit and the page budget that add_url enforces are the
\* max_depth and max_pages given for that run, which is the page budget the
\* loop enforces, also when the run began by loading a checkpoint written
\* under other limits.
C32_ScopeFixed ==
    run # NoRun =>
        /\ um.max_depth = run.max_depth
        /\ um.max_pages = run.max_pages

\* the number of pending entries plus the number of canonical URLs that add_url
\* can still accept
Remaining(m) ==
    Len(m.url_queue) + Cardinality({UrlHash(c) : c \in Canon} \ m.url_hashes)

\* C33 (termination): whatever the fetches return, a running scrape_ngo loop
\* eventually stops on the empty queue or on the page budget, because every
\* iteration removes one pending entry and add_url accepts no canonical URL
\* twice: the pending entries plus the URLs still acceptable decrease with
\* every iteration.
C33_Termination ==
    /\ (pc = "running") ~> (pc = "idle" /\ last.op \in {"exhausted", "budget"})
    /\ [][pc = "running" /\ pc' = "running" => Remaining(um') < Remaining(um)]_vars

\* C33 witness: a fresh crawl in which a URL was denied by robots.txt, one
\* failed and one was fetched has ended on the empty queue
C33_Witness ==
    /\ pc = "idle" /\ last.op = "exhausted"
    /\ restored_visited = {}
    /\ \E c \in um.visited_urls : session.dequeued[c] = 1 /\ session.fetched[c] = 0
    /\ um.failed_urls # EmptyMap
    /\ \E c \in um.visited_urls : session.fetched[c] = 1 /\ c \notin DOMAIN um.failed_urls

\* C34 (a rejected enqueue changes nothing but a counter): when add_url returns
\* False, the pending queue, dedup index, visited set and failed map are as
\* before and one counter was raised; so an add_url of a URL that was just
\* rejected for its depth or the page budget is accepted when it is made within
\* the limits.
C34_RejectedEnqueue ==
    /\ [][(last'.op = "add_url" /\ ~last'.ret) =>
             /\ um'.url_queue = um.url_queue
             /\ um'.url_hashes = um.url_hashes
             /\ um'.visited_urls = um.visited_urls
             /\ um'.failed_urls = um.failed_urls
             /\ um' = Bump(um, last'.counted)]_vars
    /\ [][(/\ last.op = "add_url" /\ ~last.ret /\ last.counted = "total_skipped"
           /\ last'.op = "add_url" /\ last'.url = last.url
           /\ NormalizeUrl(last'.url) # None
           /\ last'.entry[2] <= um.max_depth
           /\ Cardinality(um.visited_urls) < um.max_pages)
          => last'.ret]_vars

\* C34 witness: with a failed URL on record and an entry pending, a URL was
\* rejected for its depth and the next add_url of it, at depth 0, was accepted
C34_Witness ==
    /\ last.op = "add_url" /\ last.ret /\ last.entry[2] = 0
    /\ last.entry[5].op = "add_url" /\ ~last.entry[5].ret
    /\ last.entry[5].url = last.url
    /\ last.entry[5].counted = "total_skipped"
    /\ um.failed_urls # EmptyMap
    /\ Len(um.url_queue) = 2

\* the counters of the outcomes of add_url
EnqueueCounters == {"total_queued", "duplicate_count", "total_skipped"}

\* C35 (one outcome per enqueue): every add_url call raises exactly one of
\* total_queued, duplicate_count, total_skipped, by exactly 1, and no other
\* counter, so that their sum grows by 1 with every call.
C35_OneOutcome ==
    [][last'.op = "add_url" =>
          /\ \E c \in EnqueueCounters :
                /\ um'.stats[c] = um.stats[c] + 1
                /\ \A k \in DOMAIN um.stats \ {c} : um'.stats[k] = um.stats[k]
          /\ DOMAIN um'.stats = DOMAIN um.stats
          /\ um'.stats.total_queued + um'.stats.duplicate_count + um'.stats.total_skipped
                = um.stats.total_queued + um.stats.duplicate_count
                  + um.stats.total_skipped + 1]_vars

\* C35 witness: after add_url calls of each outcome and a mark_visited and a
\* mark_failed call, an add_url call was counted as a duplicate
C35_Witness ==
    /\ last.op = "add_url" /\ last.counted = "duplicate_count"
    /\ um.stats.total_queued = 2
    /\ um.stats.total_skipped = 1
    /\ um.stats.duplicate_count = 1
    /\ um.stats.total_visited = 1
    /\ um.stats.total_failed = 1

\* C36 (the counters match the sets): at every loop boundary of a crawl, fresh
\* or resumed from a checkpoint that _save_checkpoint wrote, and after its end,
\* total_visited is the size of the visited set and total_failed the size of
\* the failed map.
C36_CountersMatchSets ==
    run # NoRun =>
        /\ um.stats.total_visited = Cardinality(um.visited_urls)
        /\ um.stats.total_failed = Cardinality(DOMAIN um.failed_urls)

\* C36 witness: a run resumed from a checkpoint with visited URLs has just had a
\* fetch fail, and both counters are those of the sets
C36_Witness ==
    /\ pc = "running" /\ last.op = "fetch_failed"
    /\ restored_visited # {}
    /\ Cardinality(um.visited_urls) > Cardinality(restored_visited)
    /\ um.stats.total_visited = Cardinality(um.visited_urls)
    /\ um.stats.total_failed = Cardinality(DOMAIN um.failed_urls)
    /\ um.stats.total_failed >= 1

\* C37 (no accepted URL is lost): at every loop boundary and after scrape_ngo
\* returned, every canonical URL whose hash is in url_hashes is in the pending
\* queue or in the visited set; the entry dequeued in the iteration that stops
\* on the page budget included.
C37_NoAcceptedLost ==
    run # NoRun =>
        \A h \in um.url_hashes :
            \/ h.md5 \in um.visited_urls
            \/ \E i \in DOMAIN um.url_queue : um.url_queue[i][3] = h.md5

\* scrape_ngo has just loaded a checkpoint whose pending queue is empty and
\* whose dedup index holds the hashes of the seeds
ResumedFinished ==
    /\ last.op = "scrape_ngo" /\ last.ret
    /\ LET ck == JsonLoad(progress_file.text).url_manager_state IN
       /\ ck.url_queue = <<>>
       /\ \A i \in DOMAIN Seeds : UrlHash(NormalizeUrl(Seeds[i])) \in Range(ck.url_hashes)

\* C38 (resuming a finished crawl does nothing): when the checkpoint restores
\* an empty queue and a dedup index with the seeds, every seed is rejected as a
\* duplicate, the loop ends on the empty queue without a fetch, and the visited
\* set is the restored one.
C38_ResumeFinished ==
    /\ [](ResumedFinished =>
            LET ck == JsonLoad(progress_file.text).url_manager_state IN
            /\ um.url_queue = <<>>
            /\ um.stats.duplicate_count = ck.stats.duplicate_count + Len(Seeds)
            /\ um.stats.total_queued = ck.stats.total_queued
            /\ um.stats.total_skipped = ck.stats.total_skipped
            /\ \A c \in Canon : session.accepted[c] = <<>>
            /\ um.visited_urls = Range(ck.visited_urls))
    /\ [][ResumedFinished =>
            /\ pc' = "idle" /\ last'.op = "exhausted"
            /\ session'.fetched = session.fetched
            /\ session'.dequeued = session.dequeued
            /\ stats' = stats
            /\ um'.visited_urls = um.visited_urls]_vars

\* C38 witness: a run that resumed a checkpoint with visited URLs has ended on
\* the empty queue without having dequeued or fetched a URL, its seed counted
\* as a duplicate
C38_Witness ==
    /\ pc = "idle" /\ last.op = "exhausted"
    /\ restored_visited # {}
    /\ um.visited_urls = restored_visited
    /\ \A c \in Canon : session.dequeued[c] = 0 /\ session.fetched[c] = 0
    /\ um.stats.duplicate_count >= 1

==========================================================================
